---- MODULE Spec2Model ----
(***************************************************************************)
(* A model of two parts of biofam (MOFA2):                                 *)
(*   - Y_Node (core/nodes/Y_nodes.py): the masked observation node, its    *)
(*     mini-batch view, the observed counts and the ELBO term;             *)
(*   - saveModel (build_model/save_model.py): the HDF5 serializer.         *)
(*                                                                         *)
(* Arrays are sequences of rows, indexed from 1 (numpy's row r is row r+1  *)
(* here).  A numpy masked array is a record [data, mask, fill_value].      *)
(* Floats are integers; NaN is a reserved integer that the arithmetic      *)
(* below propagates as IEEE arithmetic does.  The ELBO is kept in units of *)
(* 1/2000 so that the factors 0.5 and log(2 pi) stay integral.             *)
(***************************************************************************)
EXTENDS Integers, Sequences, FiniteSets, TLC

(* ------------------------------ bounds -------------------------------- *)
NSamples == 2
NFeatures == 3
NFactors == 1
MaxMissing == 1
MaxBatch == 2
NViews == 2
MaxNames == 2
MaxOpts == 2

(* --------------------------- numeric helpers -------------------------- *)
\* np.nan: the value numpy stores for a missing observation.
NaN == -999999
\* log(2 pi) = 1.8379, in thousandths.
Log2PiMilli == 1838
\* The width of a slot of the name tables (dtype='S50').
NameWidth == 50

IsNaN(a) == a = NaN
FAdd(a, b) == IF IsNaN(a) \/ IsNaN(b) THEN NaN ELSE a + b
FSub(a, b) == IF IsNaN(a) \/ IsNaN(b) THEN NaN ELSE a - b
FMul(a, b) == IF IsNaN(a) \/ IsNaN(b) THEN NaN ELSE a * b

RECURSIVE SumSeq(_)
SumSeq(s) == IF s = <<>> THEN 0 ELSE FAdd(s[1], SumSeq(Tail(s)))

RECURSIVE BoolSum(_)
\* numpy's sum of a boolean vector: the number of True entries.
BoolSum(s) == IF s = <<>> THEN 0 ELSE (IF s[1] THEN 1 ELSE 0) + BoolSum(Tail(s))

NRows(m) == Len(m)
NCols(m) == Len(m[1])
Column(m, j) == [i \in 1..NRows(m) |-> m[i][j]]
\* m.sum() of a plain array.
MatSum(m) == SumSeq([i \in 1..NRows(m) |-> SumSeq(m[i])])
\* m[ix, :] with an index list ix: a copy of the rows ix, in the order of ix.
TakeRows(m, ix) == [k \in 1..Len(ix) |-> m[ix[k]]]
\* m.T
Transpose(m) == [j \in 1..NCols(m) |-> [i \in 1..NRows(m) |-> m[i][j]]]
\* a[mask] = v on a plain array.
SetWhere(a, msk, v) ==
    [i \in 1..NRows(a) |-> [j \in 1..NCols(a) |-> IF msk[i][j] THEN v ELSE a[i][j]]]

(* ------------------------------- state -------------------------------- *)
VARIABLES
    Y,          \* the Y nodes: id -> [dim, value, mini_batch, precomputed, N, D, likconst]
    Tau,        \* the Tau node of the Markov blanket: its stored moments [E, lnE]
    W,          \* the W node: [E, E2], features x factors
    Z,          \* the Z node: [E, E2], samples x factors
    ret,        \* what the last call returned, per Y node
    initMask,   \* history: the mask each Y node derived at construction
    lastIx,     \* history: the argument of the last define_mini_batch; <<>> if none
    Tau0        \* history: the moments the Tau node's own update stored

yvars == <<Y, Tau, W, Z, ret, initMask, lastIx, Tau0>>

VARIABLES
    file,       \* the output container on disk: [exists, tree]
    file0,      \* history: the container before the serializer was constructed
    sm,         \* the saveModel object: [state, mask, samples_groups, groups_names]
    model,      \* the trained model: [trained, order, nodes]
    model0,     \* history: the model as training left it
    train_opts, \* the training options dict, shared with the caller
    sret        \* the serializer's last call: [op, exc, arg, fresh]

svars == <<file, file0, sm, model, model0, train_opts, sret>>
vars == <<Y, Tau, W, Z, ret, initMask, lastIx, Tau0,
          file, file0, sm, model, model0, train_opts, sret>>

(* --------------------------- numpy.ma, as used ------------------------ *)
\* ma.masked_invalid(a): the data kept, the mask set where a is not finite.
masked_invalid(a) ==
    [type |-> "MaskedArray",
     data |-> a,
     mask |-> [i \in 1..NRows(a) |-> [j \in 1..NCols(a) |-> IsNaN(a[i][j])]],
     fill_value |-> 0]

\* ma.getmask(a)
getmask(a) == a.mask

(* ------------------------------- Y_Node ------------------------------- *)
\* Constant_Variational_Node.getExpectation: the node's value.
getExpectation(self) == self.value

\* Y_Node.mask: masks the value unless it is a masked array already, and sets
\* the fill value to 0.
mask(self) ==
    LET v == IF self.value.type # "MaskedArray"
             THEN masked_invalid(self.value.data)
             ELSE self.value
    IN  [self EXCEPT !.value = [v EXCEPT !.fill_value = 0]]

NoBatch == [set |-> FALSE, type |-> "MaskedArray", data |-> <<>>, mask |-> <<>>, fill_value |-> 0]

\* Y_Node.__init__(dim, value)
Y_Node(dim, value) ==
    mask([dim |-> dim, value |-> value, mini_batch |-> NoBatch,
          precomputed |-> FALSE, N |-> <<>>, D |-> <<>>, likconst |-> 0])

\* A getMask that forgets the mini-batch.
getMask_full(self) == getmask(self.value)

\* Y_Node.getMask
getMask(self) ==
    IF ~self.mini_batch.set THEN getmask(self.value) ELSE getmask(self.mini_batch)

\* Y_Node.define_mini_batch(ix): self.value[ix, :], a copy of the rows ix.
define_mini_batch(self, ix) ==
    [self EXCEPT !.mini_batch =
        [set |-> TRUE, type |-> "MaskedArray",
         data |-> TakeRows(self.value.data, ix),
         mask |-> TakeRows(self.value.mask, ix),
         fill_value |-> self.value.fill_value]]

\* Y_Node.get_mini_batch
get_mini_batch(self) ==
    IF ~self.mini_batch.set THEN getExpectation(self) ELSE self.mini_batch

\* A precompute with the two nominal dimensions exchanged.
precompute_swapped(self) ==
    LET m == IF ~self.mini_batch.set THEN getmask(self.value) ELSE getmask(self.mini_batch)
        N == [j \in 1..NCols(m) |-> self.dim[2] - BoolSum(Column(m, j))]
        D == [i \in 1..NRows(m) |-> self.dim[1] - BoolSum(m[i])]
    IN  [self EXCEPT !.precomputed = TRUE, !.N = N, !.D = D,
                     !.likconst = -(SumSeq(N) * Log2PiMilli)]

\* Y_Node.precompute: N = dim[0] - mask.sum(axis=0), one entry per column of
\* the mask; D = dim[1] - mask.sum(axis=1), one entry per row of the mask;
\* likconst = -0.5 * sum(N) * log(2 pi), here times 2000.
precompute(self) ==
    LET m == getMask(self)
        N == [j \in 1..NCols(m) |-> self.dim[1] - BoolSum(Column(m, j))]
        D == [i \in 1..NRows(m) |-> self.dim[2] - BoolSum(m[i])]
    IN  [self EXCEPT !.precomputed = TRUE, !.N = N, !.D = D,
                     !.likconst = -(SumSeq(N) * Log2PiMilli)]
\* A.dot(B.T) of plain arrays, entry (i, j): A of shape n x k, B of shape d x k.
DotT(A, B, i, j) == SumSeq([k \in 1..Len(A[i]) |-> FMul(A[i][k], B[j][k])])

\* s.square(A).dot(s.square(B.T)), entry (i, j).
DotTSquares(A, B, i, j) ==
    SumSeq([k \in 1..Len(A[i]) |-> FMul(FMul(A[i][k], A[i][k]), FMul(B[j][k], B[j][k]))])

\* node.getExpectations() of a blanket node: the mapping of the node's stored
\* moment arrays (the arrays themselves, not copies).
getExpectations(node) == node

\* calculateELBO, line 73: Tau["lnE"][mask] = 0, written into the array that
\* getExpectations handed out.
MaskTau(tau, msk) == [tau EXCEPT !.lnE = SetWhere(tau.lnE, msk, 0)]

\* calculateELBO, lines 68-81, entry (i, j) of the data of tmp, with
\* W = Wtmp["E"].T and WW = Wtmp["E2"].T:
\* Y^2 + ZZ.WW - Z^2.W^2 + (Z.W)^2 - 2 (Z.W) Y, on whatever Y holds there.
ResidualCell(y, Wn, Zn, i, j) ==
    LET zw == DotT(getExpectations(Zn).E, getExpectations(Wn).E, i, j)
    IN  FSub(FAdd(FSub(FAdd(FMul(y, y),
                            DotT(getExpectations(Zn).E2, getExpectations(Wn).E2, i, j)),
                       DotTSquares(getExpectations(Zn).E, getExpectations(Wn).E, i, j)),
                  FMul(zw, zw)),
             FMul(FMul(2, zw), y))

\* A residual term computed on the plain data of Y, the mask never applied.
Residual_unmasked(self, Wn, Zn) ==
    [type |-> "MaskedArray",
     data |-> [i \in 1..self.dim[1] |-> [j \in 1..self.dim[2] |->
                 ResidualCell(self.value.data[i][j], Wn, Zn, i, j)]],
     mask |-> [i \in 1..self.dim[1] |-> [j \in 1..self.dim[2] |-> FALSE]],
     fill_value |-> 0]

\* calculateELBO, lines 64-83: tmp is a masked array with Y's mask (every term
\* is combined with the masked array Y); line 83 then sets it to 0 under the
\* mask of the full matrix, which also unmasks those entries.
Residual(self, Wn, Zn) ==
    LET Yv == getExpectation(self)
        msk == getmask(self.value)
    IN  [type |-> "MaskedArray",
         data |-> [i \in 1..self.dim[1] |-> [j \in 1..self.dim[2] |->
                     IF msk[i][j] THEN 0
                     ELSE ResidualCell(Yv.data[i][j], Wn, Zn, i, j)]],
         mask |-> [i \in 1..self.dim[1] |-> [j \in 1..self.dim[2] |->
                     IF msk[i][j] THEN FALSE ELSE Yv.mask[i][j]]],
         fill_value |-> Yv.fill_value]

\* sum(Tau["E"] * tmp): the product is a masked array with tmp's mask, and the
\* sum skips what is masked.
WeightedSum(E, tmp) ==
    SumSeq([i \in 1..Len(E) |->
              SumSeq([j \in 1..Len(E[i]) |->
                        IF tmp.mask[i][j] THEN 0 ELSE FMul(E[i][j], tmp.data[i][j])])])

\* calculateELBO, line 85: likconst + 0.5 * Tau["lnE"].sum() - sum(Tau["E"] * tmp),
\* times 2000; tau is the Tau node after line 73.
calculateELBO(self, tau, Wn, Zn) ==
    self.likconst + 1000 * MatSum(getExpectations(tau).lnE)
        - 2000 * WeightedSum(getExpectations(tau).E, Residual(self, Wn, Zn))

(* ----------------------- the Y nodes' operations ---------------------- *)
Nodes == DOMAIN Y
\* A call that returned None.
Returned(name) == [op |-> name, val |-> <<>>]

\* The index lists a mini-batch is defined with: one to MaxBatch distinct
\* sample rows, in any order (a chunk of a permutation of the samples).
BatchIx ==
    {ix \in UNION {[1..n -> 1..NSamples] : n \in 1..MaxBatch} :
        \A a, b \in DOMAIN ix : a # b => ix[a] # ix[b]}

DefineMiniBatch(ix) ==
    /\ Y' = [n \in Nodes |-> define_mini_batch(Y[n], ix)]
    /\ lastIx' = ix
    /\ ret' = [n \in Nodes |-> Returned("define_mini_batch")]
    /\ UNCHANGED <<Tau, W, Z, initMask, Tau0>>
    /\ UNCHANGED svars

GetMask ==
    /\ ret' = [n \in Nodes |-> [op |-> "getMask", val |-> getMask(Y[n])]]
    /\ UNCHANGED <<Y, Tau, W, Z, initMask, lastIx, Tau0>>
    /\ UNCHANGED svars

GetMiniBatch ==
    /\ ret' = [n \in Nodes |-> [op |-> "get_mini_batch", val |-> get_mini_batch(Y[n])]]
    /\ UNCHANGED <<Y, Tau, W, Z, initMask, lastIx, Tau0>>
    /\ UNCHANGED svars

Mask ==
    /\ Y' = [n \in Nodes |-> mask(Y[n])]
    /\ ret' = [n \in Nodes |-> Returned("mask")]
    /\ UNCHANGED <<Tau, W, Z, initMask, lastIx, Tau0>>
    /\ UNCHANGED svars

Precompute ==
    /\ Y' = [n \in Nodes |-> precompute(Y[n])]
    /\ ret' = [n \in Nodes |-> Returned("precompute")]
    /\ UNCHANGED <<Tau, W, Z, initMask, lastIx, Tau0>>
    /\ UNCHANGED svars

\* calculateELBO on every Y node in turn.  Line 73 has written the Tau node's
\* lnE before line 85 reads self.likconst, which raises AttributeError on a
\* node precompute never ran on.
CalculateELBO ==
    /\ Tau' = MaskTau(Tau, getmask(Y[1].value))
    /\ ret' = [n \in Nodes |->
                 IF Y[n].precomputed
                 THEN [op |-> "calculateELBO", val |-> calculateELBO(Y[n], Tau', W, Z)]
                 ELSE Returned("AttributeError")]
    /\ UNCHANGED <<Y, W, Z, initMask, lastIx, Tau0>>
    /\ UNCHANGED svars

(* ------------------------------ initial state ------------------------- *)
Cells == (1..NSamples) \X (1..NFeatures)
\* What a caller may have left under the mask of a masked-array input.
HiddenVals == {0, 1000}
ObservedVal(i, j) == i + 2 * j

\* The input matrix of a view: NaN (raw input) or h (masked-array input) at
\* the missing cells.
InputValue(missing, h) ==
    LET data == [i \in 1..NSamples |-> [j \in 1..NFeatures |->
                    IF <<i, j>> \in missing THEN h ELSE ObservedVal(i, j)]]
        msk == [i \in 1..NSamples |-> [j \in 1..NFeatures |-> <<i, j>> \in missing]]
    IN  IF h = NaN
        THEN [type |-> "ndarray", data |-> data, mask |-> <<>>, fill_value |-> 0]
        ELSE [type |-> "MaskedArray", data |-> data, mask |-> msk, fill_value |-> 0]

InitTau ==
    [E   |-> [i \in 1..NSamples |-> [j \in 1..NFeatures |-> 1 + ((i + j) % 2)]],
     lnE |-> [i \in 1..NSamples |-> [j \in 1..NFeatures |-> i - 2 * j]]]
InitW ==
    [E  |-> [j \in 1..NFeatures |-> [k \in 1..NFactors |-> j - k]],
     E2 |-> [j \in 1..NFeatures |-> [k \in 1..NFactors |-> (j - k) * (j - k) + 1]]]
InitZ ==
    [E  |-> [i \in 1..NSamples |-> [k \in 1..NFactors |-> i + k - 1]],
     E2 |-> [i \in 1..NSamples |-> [k \in 1..NFactors |-> (i + k - 1) * (i + k - 1) + 2]]]

\* Two Y nodes over the same observations and the same Markov blanket: node 1
\* built from the raw matrix (NaN where missing), node 2 from a masked array
\* that holds h under the same mask.  Every operation is applied to both.
Init ==
    /\ \E missing \in {c \in SUBSET Cells : Cardinality(c) <= MaxMissing} :
       \E h \in HiddenVals :
          Y = [n \in 1..2 |->
                 Y_Node(<<NSamples, NFeatures>>,
                        InputValue(missing, IF n = 1 THEN NaN ELSE h))]
    /\ Tau = InitTau
    /\ W = InitW
    /\ Z = InitZ
    /\ ret = [n \in 1..2 |-> Returned("__init__")]
    /\ initMask = [n \in 1..2 |-> getmask(Y[n].value)]
    /\ lastIx = <<>>
    /\ Tau0 = Tau
    /\ file = [exists |-> FALSE, tree |-> {}]
    /\ file0 = file
    /\ sm = [state |-> "none", mask |-> <<>>, samples_groups |-> <<>>,
             groups_names |-> <<>>]
    /\ model = [trained |-> FALSE, order |-> <<>>, nodes |-> <<>>]
    /\ model0 = model
    /\ train_opts = <<>>
    /\ sret = [op |-> "", exc |-> "", arg |-> <<>>, fresh |-> TRUE]

Next ==
    \/ \E ix \in BatchIx : DefineMiniBatch(ix)
    \/ GetMask
    \/ GetMiniBatch
    \/ Mask
    \/ Precompute
    \/ CalculateELBO

Spec == Init /\ [][Next]_vars
(* ------------------------ saveModel: its inputs ----------------------- *)
\* The data handed to the serializer: one raw matrix per view, samples x
\* features, NaN where an observation is missing.
ViewMissing(m, i, j) == (i + j + m) % 3 = 0
ViewData(m) ==
    [i \in 1..NSamples |-> [j \in 1..NFeatures |->
        IF ViewMissing(m, i, j) THEN NaN ELSE ObservedVal(i, j) + 10 * m]]
ViewName(m) == "view" \o ToString(m)
SampleName(i) == "sample" \o ToString(i)
FeatureNames(m) == [j \in 1..NFeatures |-> "f" \o ToString(m) \o "_" \o ToString(j)]
\* The group labels, in sorted order.
GroupLabels == <<"A", "B">>

\* np.where(np.array(labels) == g)[0]: the positions of g, increasing.
Where(labels, g) ==
    SelectSeq([i \in 1..Len(labels) |-> i], LAMBDA i : labels[i] = g)

\* np.unique(labels): the distinct labels, sorted.
unique(labels) ==
    SelectSeq(GroupLabels, LAMBDA g : \E i \in 1..Len(labels) : labels[i] = g)

\* np.array(names, dtype='S50'): each name in a slot of 50 bytes.
AsS50(names) ==
    [k \in 1..Len(names) |->
        IF Len(names[k]) <= NameWidth THEN names[k] ELSE "(the first 50 bytes)"]

\* x.mask of a Y_Node x: Y_Node defines mask as a method and no instance
\* attribute of that name, so the attribute is the bound method.
Attr_mask(x) == [type |-> "method", val |-> <<>>]

(* ------------------------ the HDF5 container -------------------------- *)
\* A run of a method: the container's entries so far, the exception that ended
\* it ("" while none), and the model's node expectations.
Exists(tree, path) == \E e \in tree : e.path = path
Raise(ex, exc) == IF ex.exc = "" THEN [ex EXCEPT !.exc = exc] ELSE ex

\* Group.create_group(name): ValueError if the name exists.
create_group(ex, path) ==
    IF ex.exc # "" THEN ex
    ELSE IF Exists(ex.tree, path) THEN Raise(ex, "ValueError")
    ELSE [ex EXCEPT !.tree = @ \cup {[path |-> path, kind |-> "group", data |-> <<>>,
                                      text |-> <<>>, vec |-> <<>>, names |-> <<>>]}]

\* Group.create_dataset(name, data): ValueError if the name exists.  An entry
\* holds a numeric matrix in data, a numeric vector in vec, or a vector of
\* byte strings in text; names is the attribute 'names'.
NewDataset(ex, entry) ==
    IF ex.exc # "" THEN ex
    ELSE IF Exists(ex.tree, entry.path) THEN Raise(ex, "ValueError")
    ELSE [ex EXCEPT !.tree = @ \cup {entry}]

create_dataset(ex, path, data) ==
    NewDataset(ex, [path |-> path, kind |-> "dataset", data |-> data,
                    text |-> <<>>, vec |-> <<>>, names |-> <<>>])

create_text_dataset(ex, path, text) ==
    NewDataset(ex, [path |-> path, kind |-> "dataset", data |-> <<>>,
                    text |-> text, vec |-> <<>>, names |-> <<>>])

create_vector_dataset(ex, path, vec) ==
    NewDataset(ex, [path |-> path, kind |-> "dataset", data |-> <<>>,
                    text |-> <<>>, vec |-> vec, names |-> <<>>])

(* ------------------------------ saveData ------------------------------ *)
RECURSIVE SaveSamplesNames(_, _, _)
\* saveData, lines 53-57: samples/<g> for the groups gs.
SaveSamplesNames(ex, self, gs) ==
    IF gs = <<>> THEN ex
    ELSE LET idx == Where(self.samples_groups, Head(gs))
         IN  SaveSamplesNames(
                 create_text_dataset(ex, <<"samples", Head(gs)>>,
                                AsS50([k \in 1..Len(idx) |-> SampleName(idx[k])])),
                 self, Tail(gs))

RECURSIVE SaveFeaturesNames(_, _)
\* saveData, lines 60-62: features/<view> for the views m..NViews.
SaveFeaturesNames(ex, m) ==
    IF m > NViews THEN ex
    ELSE SaveFeaturesNames(
             create_text_dataset(ex, <<"features", ViewName(m)>>, AsS50(FeatureNames(m))),
             m + 1)

RECURSIVE SaveViewGroups(_, _, _, _)
\* saveData, lines 67-75, for view m and the groups gs: the group's rows, NaN
\* written where self.mask[m] says so.  Subscripting a bound method raises
\* TypeError.
SaveViewGroups(ex, self, m, gs) ==
    IF gs = <<>> \/ ex.exc # "" THEN ex
    ELSE LET idx == Where(self.samples_groups, Head(gs))
             tmp == TakeRows(ViewData(m), idx)
         IN  IF self.mask[m].type = "method" THEN Raise(ex, "TypeError")
             ELSE SaveViewGroups(
                      create_dataset(ex, <<"data", ViewName(m), Head(gs)>>,
                                     SetWhere(tmp, TakeRows(self.mask[m].val, idx), NaN)),
                      self, m, Tail(gs))

RECURSIVE SaveViews(_, _, _)
\* saveData, lines 65-75, for the views m..NViews.
SaveViews(ex, self, m) ==
    IF m > NViews \/ ex.exc # "" THEN ex
    ELSE SaveViews(SaveViewGroups(create_group(ex, <<"data", ViewName(m)>>),
                                  self, m, self.groups_names),
                   self, m + 1)

\* saveModel.saveData
saveData(ex, self) ==
    LET e1 == create_group(create_group(create_group(ex, <<"data">>),
                                        <<"features">>), <<"samples">>)
        e2 == SaveSamplesNames(e1, self, self.groups_names)
        e3 == SaveFeaturesNames(e2, 1)
    IN  SaveViews(e3, self, 1)

(* --------------------------- saveExpectations ------------------------- *)
\* The names saveExpectations recognises (line 84).
Whitelist == {"Z", "W", "Y", "Tau", "AlphaW", "AlphaZ", "ThetaZ", "ThetaW"}
\* Line 89.
multigroup_nodes == {"Y", "Tau", "Z"}

RECURSIVE Dedup(_)
\* The keys of a dict built from the sequence s: each name once, at its first place.
Dedup(s) ==
    IF s = <<>> THEN <<>>
    ELSE LET r == Dedup(SubSeq(s, 1, Len(s) - 1))
             x == s[Len(s)]
         IN  IF \E k \in 1..Len(r) : r[k] = x THEN r ELSE Append(r, x)

\* saveExpectations, lines 80-85: the names of the nodes to export, or the
\* failed assertion.  arg is [type, names]; a str argument is the one name.
SelectNodes(registry, arg) ==
    LET keys == registry.order
        isKey(x) == \E k \in 1..Len(keys) : keys[k] = x
        nodes == IF arg.type = "str" /\ arg.names = <<"all">> THEN keys ELSE arg.names
    IN  IF arg.type \in {"list", "tuple"}
           /\ ~({arg.names[k] : k \in 1..Len(arg.names)} \subseteq Whitelist)
        THEN [exc |-> "AssertionError", names |-> <<>>]
        ELSE [exc |-> "", names |-> Dedup(SelectSeq(nodes, isKey))]

RECURSIVE SaveMVGroups(_, _, _, _, _)
\* Lines 112-120, node n, view m, groups gs: NaN written into the node's own
\* expectation exp[m] where self.mask[m] says so, then the group's rows, not
\* transposed.  A bound method is no valid index of an array: IndexError.
SaveMVGroups(ex, self, n, m, gs) ==
    IF gs = <<>> \/ ex.exc # "" THEN ex
    ELSE IF self.mask[m].type = "method" THEN Raise(ex, "IndexError")
    ELSE LET masked == SetWhere(ex.nodes[n].E[m], self.mask[m].val, NaN)
             e1 == [ex EXCEPT !.nodes[n].E[m] = masked]
             idx == Where(self.samples_groups, Head(gs))
         IN  SaveMVGroups(
                 create_dataset(e1, <<"expectations", n, ViewName(m), Head(gs)>>,
                                TakeRows(masked, idx)),
                 self, n, m, Tail(gs))

RECURSIVE SaveMVNode(_, _, _, _)
\* Lines 104-124, node n, views m..M.
SaveMVNode(ex, self, n, m) ==
    IF m > Len(ex.nodes[n].E) \/ ex.exc # "" THEN ex
    ELSE IF n \in multigroup_nodes
    THEN SaveMVNode(
             SaveMVGroups(create_group(ex, <<"expectations", n, ViewName(m)>>),
                          self, n, m, self.groups_names),
             self, n, m + 1)
    ELSE SaveMVNode(
             create_dataset(ex, <<"expectations", n, ViewName(m)>>,
                            Transpose(ex.nodes[n].E[m])),
             self, n, m + 1)

RECURSIVE SaveSVGroups(_, _, _, _)
\* Lines 131-133, node n, groups gs: the group's rows, transposed.
SaveSVGroups(ex, self, n, gs) ==
    IF gs = <<>> \/ ex.exc # "" THEN ex
    ELSE LET idx == Where(self.samples_groups, Head(gs))
         IN  SaveSVGroups(
                 create_dataset(ex, <<"expectations", n, Head(gs)>>,
                                Transpose(TakeRows(ex.nodes[n].E, idx))),
                 self, n, Tail(gs))

RECURSIVE SaveNodes(_, _, _)
\* Lines 95-137, for the nodes ns in turn.
SaveNodes(ex, self, ns) ==
    IF ns = <<>> \/ ex.exc # "" THEN ex
    ELSE LET n == Head(ns)
             e1 == create_group(ex, <<"expectations", n>>)
             e2 == IF e1.exc # "" THEN e1
                   ELSE IF e1.nodes[n].multiview THEN SaveMVNode(e1, self, n, 1)
                   ELSE IF n \in multigroup_nodes
                   THEN SaveSVGroups(e1, self, n, self.groups_names)
                   ELSE create_dataset(e1, <<"expectations", n, "E">>,
                                       Transpose(e1.nodes[n].E))
         IN  SaveNodes(e2, self, Tail(ns))

\* saveModel.saveExpectations(nodes)
saveExpectations(ex, self, registry, arg) ==
    LET sel == SelectNodes(registry, arg)
    IN  IF sel.exc # "" THEN Raise(ex, sel.exc)
        ELSE SaveNodes(create_group(ex, <<"expectations">>), self, sel.names)

(* --------------------------- saveTrainOptions ------------------------- *)
\* A dict is the sequence of its entries [k, v] in insertion order.  A value is
\* [t, n, items]: a number n (t = "num"), a string that is no number
\* (t = "str"), or a nested dict of items (t = "dict").
Num(n) == [t |-> "num", n |-> n, items |-> <<>>]
Str == [t |-> "str", n |-> 0, items |-> <<>>]
Dict(items) == [t |-> "dict", n |-> 0, items |-> items]
Entry(k, v) == [k |-> k, v |-> v]
Keys(d) == [i \in 1..Len(d) |-> d[i].k]
Values(d) == [i \in 1..Len(d) |-> d[i].v]
HasKey(d, k) == \E i \in 1..Len(d) : d[i].k = k

\* d[k] = v: the value replaced in place, or the entry appended.
DictSet(d, k, v) ==
    IF HasKey(d, k)
    THEN [i \in 1..Len(d) |-> IF d[i].k = k THEN Entry(k, v) ELSE d[i]]
    ELSE Append(d, Entry(k, v))

\* d.pop(k), del d[k]
DictPop(d, k) == SelectSeq(d, LAMBDA e : e.k # k)

\* A flattened name that drops the parent key.
FlatName_child(k, k1) == k1

\* Line 173: str(k) + "_" + str(k1)
FlatName(k, k1) == k \o "_" \o k1

RECURSIVE FlattenItems(_, _, _)
\* Lines 172-173: opts[k_k1] = v1 for the items of the nested dict under k.
FlattenItems(opts, k, items) ==
    IF items = <<>> THEN opts
    ELSE FlattenItems(DictSet(opts, FlatName(k, Head(items).k), Head(items).v),
                      k, Tail(items))

RECURSIVE Flatten(_, _)
\* Lines 170-174: over the entries of a copy of opts, in order.
Flatten(opts, copy) ==
    IF copy = <<>> THEN opts
    ELSE IF Head(copy).v.t = "dict"
    THEN Flatten(DictPop(FlattenItems(opts, Head(copy).k, Head(copy).v.items),
                         Head(copy).k),
                 Tail(copy))
    ELSE Flatten(opts, Tail(copy))

\* Lines 178-181.
RemoveStrings(opts) ==
    LET o1 == IF HasKey(opts, "schedule") THEN DictPop(opts, "schedule") ELSE opts
    IN  IF HasKey(o1, "convergence_mode") THEN DictPop(o1, "convergence_mode") ELSE o1

\* np.array(values, dtype=np.float): the exception it raises, "" if none.
AsFloatArray(values) ==
    IF \E i \in 1..Len(values) : values[i].t = "str" THEN "ValueError"
    ELSE IF \E i \in 1..Len(values) : values[i].t = "dict" THEN "TypeError"
    ELSE ""

\* saveModel.saveTrainOptions: [ex, opts], the run and self.train_opts after
\* it (the dict is changed in place, whatever happens next).
saveTrainOptions(ex, train) ==
    LET opts == RemoveStrings(Flatten(train, train))
        bad  == AsFloatArray(Values(opts))
        e1   == IF bad # "" THEN Raise(ex, bad)
                ELSE create_vector_dataset(ex, <<"training_opts">>,
                                           [i \in 1..Len(opts) |-> opts[i].v.n])
        e2   == IF e1.exc # "" THEN e1
                ELSE [e1 EXCEPT !.tree =
                        {IF e.path = <<"training_opts">>
                         THEN [e EXCEPT !.names = Keys(opts)] ELSE e : e \in @}]
    IN  [ex |-> e2, opts |-> opts]

(* ----------------------- the serializer's operations ------------------ *)
NoSerializer == [state |-> "none", mask |-> <<>>, samples_groups |-> <<>>,
                 groups_names |-> <<>>]

\* saveModel.__init__(model, outfile, data, samples_groups, ...)
Construct(samples_groups) ==
    /\ sm.state = "none"
    /\ IF ~model.trained
       THEN \* line 16
            /\ sm' = [NoSerializer EXCEPT !.state = "failed"]
            /\ file' = file
            /\ sret' = [op |-> "__init__", exc |-> "AssertionError",
                        arg |-> samples_groups, fresh |-> TRUE]
       ELSE \* line 20: h5py.File(outfile, 'w') creates the file, or truncates it
            /\ file' = [exists |-> TRUE, tree |-> {}]
            /\ IF Len(samples_groups) # NRows(ViewData(1))
               THEN \* line 30
                    /\ sm' = [NoSerializer EXCEPT
                                !.state = "failed",
                                !.mask = [m \in DOMAIN Y |-> Attr_mask(Y[m])]]
                    /\ sret' = [op |-> "__init__", exc |-> "AssertionError",
                                arg |-> samples_groups, fresh |-> TRUE]
               ELSE /\ sm' = [state |-> "constructed",
                              mask |-> [m \in DOMAIN Y |-> Attr_mask(Y[m])],
                              samples_groups |-> samples_groups,
                              groups_names |-> unique(samples_groups)]
                    /\ sret' = [op |-> "__init__", exc |-> "",
                                arg |-> samples_groups, fresh |-> TRUE]
    /\ UNCHANGED <<file0, model, model0, train_opts>>
    /\ UNCHANGED yvars

Run == [tree |-> file.tree, exc |-> "", nodes |-> model.nodes]

SaveData ==
    /\ sm.state = "constructed"
    /\ LET ex == saveData(Run, sm)
       IN  /\ file' = [file EXCEPT !.tree = ex.tree]
           /\ sret' = [op |-> "saveData", exc |-> ex.exc, arg |-> <<>>,
                       fresh |-> ~Exists(file.tree, <<"data">>)]
    /\ UNCHANGED <<file0, sm, model, model0, train_opts>>
    /\ UNCHANGED yvars

SaveExpectations(arg) ==
    /\ sm.state = "constructed"
    /\ LET ex == saveExpectations(Run, sm, model, arg)
       IN  /\ file' = [file EXCEPT !.tree = ex.tree]
           /\ model' = [model EXCEPT !.nodes = ex.nodes]
           /\ sret' = [op |-> "saveExpectations", exc |-> ex.exc, arg |-> arg,
                       fresh |-> ~Exists(file.tree, <<"expectations">>)]
    /\ UNCHANGED <<file0, sm, model0, train_opts>>
    /\ UNCHANGED yvars

SaveTrainOptions ==
    /\ sm.state = "constructed"
    /\ LET r == saveTrainOptions(Run, train_opts)
       IN  /\ file' = [file EXCEPT !.tree = r.ex.tree]
           /\ train_opts' = r.opts
           /\ sret' = [op |-> "saveTrainOptions", exc |-> r.ex.exc,
                       arg |-> train_opts,
                       fresh |-> ~Exists(file.tree, <<"training_opts">>)]
    /\ UNCHANGED <<file0, sm, model, model0>>
    /\ UNCHANGED yvars

(* ------------------- the serializer's initial states ------------------ *)
\* The group-label arrays a caller may pass: one label per sample, or one too
\* few, or one too many.
GroupSeqs ==
    UNION {[1..n -> {GroupLabels[k] : k \in 1..Len(GroupLabels)}] :
              n \in (NSamples - 1)..(NSamples + 1)}

\* The names a caller may ask saveExpectations for.
NameUniverse == {"W", "Z", "Y", "AlphaZ", "Foo"}
ExpArgs ==
    {[type |-> "str", names |-> <<x>>] : x \in NameUniverse \cup {"all"}}
    \cup {[type |-> t, names |-> ns] :
            t \in {"list", "tuple"},
            ns \in UNION {[1..n -> NameUniverse] : n \in 1..MaxNames}}

\* The entries training options are made of.
OptPool ==
    {Entry("iter", Num(10)),
     Entry("stochastic", Dict(<<Entry("batch_size", Num(50)), Entry("lr", Num(1))>>)),
     Entry("schedule", Str),
     Entry("convergence_mode", Str),
     Entry("schedule", Num(5)),
     Entry("stochastic_lr", Num(7)),
     Entry("convergence", Dict(<<Entry("mode", Num(3))>>)),
     Entry("verbose", Str),
     Entry("drop", Dict(<<Entry("by_r2", Num(2)), Entry("mode", Str)>>))}

\* The training options: up to MaxOpts entries with distinct keys.
OptDicts ==
    {d \in UNION {[1..n -> OptPool] : n \in 0..MaxOpts} :
        \A a, b \in DOMAIN d : a # b => d[a].k # d[b].k}

\* The options of the spec's example.
ExampleOpts ==
    <<Entry("stochastic", Dict(<<Entry("batch_size", Num(50)), Entry("lr", Num(1))>>)),
      Entry("schedule", Str), Entry("convergence_mode", Str)>>

\* The trained model's registry: W, Tau and Y are multi-view nodes (one
\* expectation per view), Z and AlphaZ are single-view; Y, Tau and Z are
\* multi-group (their rows are samples), W and AlphaZ are not.
InitModel(trained) ==
    [trained |-> trained,
     order |-> <<"Z", "W", "AlphaZ", "Tau", "Y">>,
     nodes |-> [n \in {"Z", "W", "AlphaZ", "Tau", "Y"} |->
        IF n = "Z" THEN [multiview |-> FALSE, multigroup |-> TRUE, E |-> InitZ.E]
        ELSE IF n = "W"
             THEN [multiview |-> TRUE, multigroup |-> FALSE,
                   E |-> [m \in 1..NViews |-> InitW.E]]
        ELSE IF n = "AlphaZ"
             THEN [multiview |-> FALSE, multigroup |-> FALSE,
                   E |-> <<[k \in 1..NFactors |-> k + 1]>>]
        ELSE IF n = "Tau"
             THEN [multiview |-> TRUE, multigroup |-> TRUE,
                   E |-> [m \in 1..NViews |-> InitTau.E]]
        ELSE [multiview |-> TRUE, multigroup |-> TRUE,
              E |-> [m \in 1..NViews |-> ViewData(m)]]]]

OldFile == [exists |-> TRUE,
            tree |-> {[path |-> <<"old">>, kind |-> "dataset", data |-> <<>>,
                       text |-> <<>>, vec |-> <<1>>, names |-> <<>>]}]
NoFile == [exists |-> FALSE, tree |-> {}]

\* The Y nodes of the model handed to the serializer: one per view of the data.
InitViews ==
    /\ Y = [m \in 1..NViews |->
              Y_Node(<<NSamples, NFeatures>>,
                     [type |-> "ndarray", data |-> ViewData(m), mask |-> <<>>,
                      fill_value |-> 0])]
    /\ Tau = InitTau
    /\ W = InitW
    /\ Z = InitZ
    /\ ret = [m \in 1..NViews |-> Returned("__init__")]
    /\ initMask = [m \in 1..NViews |-> getmask(Y[m].value)]
    /\ lastIx = <<>>
    /\ Tau0 = Tau

InitSave ==
    /\ InitViews
    /\ file \in {NoFile, OldFile}
    /\ file0 = file
    /\ sm = NoSerializer
    /\ \E trained \in BOOLEAN : model = InitModel(trained)
    /\ model0 = model
    /\ train_opts = ExampleOpts
    /\ sret = [op |-> "", exc |-> "", arg |-> <<>>, fresh |-> TRUE]

InitOpts ==
    /\ InitViews
    /\ file = NoFile
    /\ file0 = file
    /\ sm = NoSerializer
    /\ model = InitModel(TRUE)
    /\ model0 = model
    /\ train_opts \in OptDicts
    /\ sret = [op |-> "", exc |-> "", arg |-> <<>>, fresh |-> TRUE]

NextSave ==
    \/ \E sg \in GroupSeqs : Construct(sg)
    \/ SaveData
    \/ \E arg \in ExpArgs : SaveExpectations(arg)
    \/ SaveTrainOptions

NextOpts ==
    \/ \E sg \in GroupSeqs : Construct(sg)
    \/ SaveTrainOptions

SpecSave == InitSave /\ [][NextSave]_vars
SpecOpts == InitOpts /\ [][NextOpts]_vars

(* ------------------------------ the claims ---------------------------- *)
\* The number of True entries of a boolean vector, counted as a set.
CountTrue(v) == Cardinality({k \in DOMAIN v : v[k]})

\* What lies where nothing is missing.
ObservedPart(v) ==
    [i \in 1..NRows(v.data) |-> [j \in 1..NCols(v.data) |->
        IF v.mask[i][j] THEN 0 ELSE v.data[i][j]]]

\* C3: two Y nodes with the same missing-value mask that agree on every
\* observed entry, under the same Z, W and Tau expectations and after the
\* same calls, get the same value from calculateELBO, whatever is stored
\* under the mask.
C3_ElboIgnoresMaskedValues ==
    (/\ getmask(Y[1].value) = getmask(Y[2].value)
     /\ ObservedPart(Y[1].value) = ObservedPart(Y[2].value)
     /\ ret[1].op = "calculateELBO"
     /\ ret[2].op = "calculateELBO")
    => ret[1].val = ret[2].val

\* C3 happens: both nodes have returned an ELBO, an entry is missing, and the
\* two nodes hold different values under the mask.
C3_Witness ==
    /\ ret[1].op = "calculateELBO"
    /\ ret[2].op = "calculateELBO"
    /\ \E c \in Cells : Y[1].value.mask[c[1]][c[2]]
                         /\ Y[1].value.data[c[1]][c[2]] # Y[2].value.data[c[1]][c[2]]
\* The rows ix of the construction mask of node n.
ExpectedMask(n) ==
    IF lastIx = <<>> THEN initMask[n] ELSE TakeRows(initMask[n], lastIx)

\* The rows ix of the matrix of node n, or the whole expectation if no
\* mini-batch was ever defined.
ExpectedBatch(n) ==
    IF lastIx = <<>>
    THEN getExpectation(Y[n])
    ELSE [set |-> TRUE, type |-> "MaskedArray",
          data |-> TakeRows(Y[n].value.data, lastIx),
          mask |-> TakeRows(initMask[n], lastIx),
          fill_value |-> 0]

\* C9: whatever calls were made, the mask of the full matrix is the one
\* derived at construction; getMask returns it if define_mini_batch was never
\* called and otherwise its rows ix, ix the argument of the last
\* define_mini_batch; get_mini_batch returns the full expectation, or the rows
\* ix of the matrix.
C9_MaskAndBatchViews ==
    \A n \in Nodes :
        /\ getmask(Y[n].value) = initMask[n]
        /\ getMask(Y[n]) = ExpectedMask(n)
        /\ get_mini_batch(Y[n]) = ExpectedBatch(n)
        /\ ret[n].op = "getMask" => ret[n].val = ExpectedMask(n)
        /\ ret[n].op = "get_mini_batch" => ret[n].val = ExpectedBatch(n)

\* C9 happens: getMask has just returned while a mini-batch of fewer rows than
\* the matrix is active that holds a missing entry, after precompute and
\* calculateELBO have run.
C9_Witness ==
    /\ ret[1].op = "getMask"
    /\ lastIx # <<>>
    /\ Len(lastIx) < NSamples
    /\ \E k \in DOMAIN ret[1].val : CountTrue(ret[1].val[k]) > 0
    /\ \E c \in Cells : ~initMask[1][c[1]][c[2]] /\ initMask[1] # ret[1].val
    /\ Y[1].precomputed
    /\ Tau # Tau0

\* The mask precompute read: getMask at the time of the call.
MissingInColumn(m, j) == Cardinality({i \in 1..NRows(m) : m[i][j]})
MissingInRow(m, i) == Cardinality({j \in 1..NCols(m) : m[i][j]})

\* C4, as the code has it: N has one entry per feature and D one per row of
\* the mask getMask returns.  Right after precompute, for every feature
\* column j, N[j] plus the number of missing entries in column j of that mask
\* is the total sample count dim[0]; for every row i of that mask, D[i] plus
\* the number of missing entries in the row is the total feature count
\* dim[1].  With no mini-batch the mask is the full matrix's; with one it is
\* the rows ix of it.
C4_ObservedCounts ==
    \A n \in Nodes :
        ret[n].op = "precompute" =>
            LET m == ExpectedMask(n)
            IN  /\ Len(Y[n].N) = NFeatures
                /\ \A j \in 1..NFeatures :
                      Y[n].N[j] + MissingInColumn(m, j) = NSamples
                /\ Len(Y[n].D) = NRows(m)
                /\ \A i \in 1..NRows(m) :
                      Y[n].D[i] + MissingInRow(m, i) = NFeatures

\* C4 happens: precompute has just run while a mini-batch of fewer rows than
\* the matrix is active, and the batch holds a missing entry.
C4_Witness ==
    /\ ret[1].op = "precompute"
    /\ lastIx # <<>>
    /\ Len(lastIx) < NSamples
    /\ \E k \in DOMAIN lastIx : MissingInRow(initMask[1], lastIx[k]) > 0

\* C4 as claimed: right after precompute, N has one entry per sample row i
\* with N[i] + (missing in row i) = feature count, and D one entry per feature
\* column j with D[j] + (missing in column j) = sample count, a mini-batch
\* active or not.
C4_AsClaimed ==
    \A n \in Nodes :
        ret[n].op = "precompute" =>
            /\ Len(Y[n].N) = NSamples
            /\ \A i \in 1..NSamples :
                  Y[n].N[i] + MissingInRow(initMask[n], i) = NFeatures
            /\ Len(Y[n].D) = NFeatures
            /\ \A j \in 1..NFeatures :
                  Y[n].D[j] + MissingInColumn(initMask[n], j) = NSamples
C1_AsClaimed == sm.state = "failed" => file = file0

\* C2 as claimed: saveExpectations with a name outside the whitelist, given as
\* a string other than 'all', a list or a tuple, fails before the group
\* 'expectations' is created.
C2_AsClaimed ==
    (/\ sret.op = "saveExpectations"
     /\ sret.fresh
     /\ sret.arg.names # <<"all">>
     /\ \E k \in 1..Len(sret.arg.names) : sret.arg.names[k] \notin Whitelist)
    => (sret.exc = "AssertionError" /\ ~Exists(file.tree, <<"expectations">>))

\* The dataset at a path.
At(path) == CHOOSE e \in file.tree : e.path = path
IsDataset(path) == \E e \in file.tree : e.path = path /\ e.kind = "dataset"

\* The rows of matrix a whose sample has label g, in order, NaN where msk is set.
GroupRows(a, msk, g) ==
    LET idx == Where(sm.samples_groups, g)
    IN  [k \in 1..Len(idx) |-> [j \in 1..NCols(a) |->
            IF msk[idx[k]][j] THEN NaN ELSE a[idx[k]][j]]]
NoMask(a) == [i \in 1..NRows(a) |-> [j \in 1..NCols(a) |-> FALSE]]
Groups == {sm.groups_names[k] : k \in 1..Len(sm.groups_names)}

\* C7 as claimed: after saveData, data/<view m>/<g> holds the rows of data[m]
\* with label g, in order, NaN where view m's mask is set; samples/<g> holds
\* the names of those samples; the row counts add up to the sample count.
C7_AsClaimed ==
    (sret.op = "saveData" /\ sret.fresh) =>
        /\ \A m \in 1..NViews : \A g \in Groups :
              /\ IsDataset(<<"data", ViewName(m), g>>)
              /\ At(<<"data", ViewName(m), g>>).data
                    = GroupRows(ViewData(m), initMask[m], g)
        /\ \A g \in Groups :
              /\ IsDataset(<<"samples", g>>)
              /\ At(<<"samples", g>>).text
                    = [k \in 1..Len(Where(sm.samples_groups, g)) |->
                          SampleName(Where(sm.samples_groups, g)[k])]
        /\ \A i \in 1..NSamples : \E g \in Groups : sm.samples_groups[i] = g

\* The nodes a saveExpectations call was asked for that the model has.
Requested ==
    IF sret.arg.names = <<"all">> THEN DOMAIN model0.nodes
    ELSE {sret.arg.names[k] : k \in 1..Len(sret.arg.names)} \cap DOMAIN model0.nodes

\* C8 as claimed: the layout saveExpectations writes for a node follows from
\* its two flags: multi-view and multi-group, expectations/<node>/<view>/<group>
\* with the group's rows, not transposed, NaN under the mask; multi-view and
\* single-group, expectations/<node>/<view> transposed (first axis: factors);
\* single-view and multi-group, expectations/<node>/<group> transposed;
\* single-view and single-group, expectations/<node>/E transposed.
C8_AsClaimed ==
    (sret.op = "saveExpectations" /\ sret.fresh /\ sret.exc # "AssertionError") =>
        \A n \in Requested :
            LET node == model0.nodes[n]
            IN  IF node.multiview /\ node.multigroup
                THEN \A m \in 1..NViews : \A g \in Groups :
                        /\ IsDataset(<<"expectations", n, ViewName(m), g>>)
                        /\ At(<<"expectations", n, ViewName(m), g>>).data
                              = GroupRows(node.E[m], initMask[m], g)
                ELSE IF node.multiview
                THEN \A m \in 1..NViews :
                        /\ IsDataset(<<"expectations", n, ViewName(m)>>)
                        /\ At(<<"expectations", n, ViewName(m)>>).data
                              = Transpose(node.E[m])
                        /\ NRows(At(<<"expectations", n, ViewName(m)>>).data) = NFactors
                ELSE IF node.multigroup
                THEN \A g \in Groups :
                        /\ IsDataset(<<"expectations", n, g>>)
                        /\ At(<<"expectations", n, g>>).data
                              = Transpose(GroupRows(node.E, NoMask(node.E), g))
                ELSE /\ IsDataset(<<"expectations", n, "E">>)
                     /\ At(<<"expectations", n, "E">>).data = Transpose(node.E)

\* C6 as claimed: saveTrainOptions, called on a container that holds no
\* training options yet, does not fail, whatever non-numeric entries the
\* options hold, and persists the table.
C6_AsClaimed ==
    (sret.op = "saveTrainOptions" /\ sret.fresh) =>
        (sret.exc = "" /\ IsDataset(<<"training_opts">>))

\* The nested entries of the options d, as <<parent key, child entry>>.
NestedOf(d) ==
    UNION {{<<d[i].k, d[i].v.items[j]>> : j \in 1..Len(d[i].v.items)} :
              i \in {a \in 1..Len(d) : d[a].v.t = "dict"}}
\* The top-level entries of d that are not nested dicts.
PlainOf(d) == {d[i] : i \in {a \in 1..Len(d) : d[a].v.t # "dict"}}
Joined(p) == p[1] \o "_" \o p[2].k
Reserved == {"schedule", "convergence_mode"}

\* No two entries of d end up under one name: the flattened names differ from
\* each other and from the names of the entries that are not nested.
NoClash(d) ==
    /\ \A p, q \in NestedOf(d) : Joined(p) = Joined(q) => p = q
    /\ \A p \in NestedOf(d) : \A e \in PlainOf(d) : Joined(p) # e.k

\* The persisted table, as the set of <<name, value>> pairs its two aligned
\* arrays hold.
Persisted ==
    LET e == At(<<"training_opts">>)
    IN  {<<e.names[i], e.vec[i]>> : i \in 1..Len(e.names)}
PersistedNames == {p[1] : p \in Persisted}
Saved == sret.op = "saveTrainOptions" /\ sret.exc = ""

\* An entry that is not numeric is left after flattening and after the removal
\* of 'schedule' and 'convergence_mode'.
Leftover(d) ==
    \/ \E x \in PlainOf(d) : x.v.t = "str" /\ x.k \notin Reserved
    \/ \E p \in NestedOf(d) : p[2].v.t = "str" /\ Joined(p) \notin Reserved

\* C5 (amended): for a saveTrainOptions call on a container without a
\* training-options table, when no two entries end up under one name: if an
\* entry that is not numeric is left under a name other than 'schedule' and
\* 'convergence_mode' the call fails and persists no table; otherwise it
\* persists a table in which every nested entry (k, k1, v1) appears as
\* k_k1 = v1 unless k_k1 is 'schedule' or 'convergence_mode', the key k of a
\* nested dict is absent, every entry that is not nested and not named
\* 'schedule' or 'convergence_mode' appears under its own name with its value,
\* nothing else appears, and names and values are aligned one to one.
C5_FlattenedOptions ==
    (sret.op = "saveTrainOptions" /\ sret.fresh /\ NoClash(sret.arg)) =>
        LET d == sret.arg
            e == At(<<"training_opts">>)
        IN  IF Leftover(d)
            THEN sret.exc = "ValueError" /\ ~Exists(file.tree, <<"training_opts">>)
            ELSE /\ sret.exc = ""
                 /\ IsDataset(<<"training_opts">>)
                 /\ Len(e.names) = Len(e.vec)
                 /\ Cardinality(PersistedNames) = Len(e.names)
                 /\ \A p \in NestedOf(d) :
                       Joined(p) \notin Reserved
                           => <<Joined(p), p[2].v.n>> \in Persisted
                 /\ \A i \in 1..Len(d) :
                       d[i].v.t = "dict" => d[i].k \notin PersistedNames
                 /\ \A x \in PlainOf(d) :
                       x.k \notin Reserved => <<x.k, x.v.n>> \in Persisted
                 /\ PersistedNames \cap Reserved = {}
                 /\ PersistedNames \subseteq
                       {Joined(p) : p \in NestedOf(d)} \cup {x.k : x \in PlainOf(d)}

\* A call that persisted a table from options with a nested dict of two
\* entries next to a plain numeric entry, no two under one name.
C5_Witness ==
    /\ Saved
    /\ NoClash(sret.arg)
    /\ \E i \in 1..Len(sret.arg) :
          /\ sret.arg[i].v.t = "dict"
          /\ Len(sret.arg[i].v.items) = 2
    /\ \E x \in PlainOf(sret.arg) : x.v.t = "num" /\ x.k \notin Reserved
    /\ <<"stochastic_lr", 1>> \in Persisted

\* C5 as claimed: in the table a call persists, every nested entry
\* (k, k1, v1) is persisted as k_k1 = v1, the key k is absent, and every
\* numeric entry that is not nested is persisted under its own name.
C5_AsClaimed ==
    Saved =>
        LET d == sret.arg
        IN  /\ \A p \in NestedOf(d) : <<Joined(p), p[2].v.n>> \in Persisted
            /\ \A i \in 1..Len(d) : d[i].v.t = "dict" => d[i].k \notin PersistedNames
            /\ \A x \in PlainOf(d) : x.v.t = "num" => <<x.k, x.v.n>> \in Persisted
====
